---- MODULE Spec2Model ----
(***************************************************************************)
(* The winpty agent (src/agent/Agent.cc): the controller that sits inside  *)
(* the console session, serves the framed control protocol, spawns the     *)
(* child, scrapes the console on a periodic tick and closes the output     *)
(* pipes once an auto-shutdown child has exited.                           *)
(*                                                                         *)
(* The control pipe is modelled byte by byte: a frame is an 8-byte         *)
(* little-endian length followed by the body, and pollControlPipe peeks,   *)
(* compares and consumes bytes exactly as the code does.                   *)
(***************************************************************************)
EXTENDS Integers, Sequences, FiniteSets, TLC

----------------------------------------------------------------------------
(* Bounds of the model.                                                    *)

\* Frames the host writes on the control pipe in one agent lifetime.
MaxFrames == 2

\* Cap on the pending send units tracked per output pipe.
MaxPending == 1

\* The console title changes only while fewer titles than this have been
\* written to conout.
MaxTitles == 2

----------------------------------------------------------------------------
(* Program constants.                                                      *)

\* sizeof(packetSize), the uint64_t length header.
HeaderSize == 8

\* pipe.setReadBufferSize(64 * 1024)
InitialReadBufferSize == 64 * 1024

\* AgentMsg::Type discriminants (shared/AgentMsg.h).
MsgStartProcess == 0
MsgSetSize == 1

\* StartProcessResult discriminants (shared/AgentMsg.h).
ProcessCreated == 0
CreateProcessFailed == 1
PipesStillOpen == 2

\* WINPTY_SPAWN_FLAG_AUTO_SHUTDOWN (include/winpty_constants.h).
SpawnFlagAutoShutdown == 1

\* Limits used by resizeWindow (agent/Scraper.h).
MAX_CONSOLE_WIDTH == 2500
BUFFER_LINE_COUNT == 3000

----------------------------------------------------------------------------
(* Byte-level encoding of the wire format.                                 *)

RECURSIVE LE(_, _)
\* The w little-endian bytes of the natural number n.
LE(n, w) == IF w = 0 THEN << >> ELSE << n % 256 >> \o LE(n \div 256, w - 1)

\* The four two's-complement bytes of a (possibly negative) int32.
EncInt32(n) == LE(n % 16777216, 3) \o << (n \div 16777216) % 256 >>

EncInt64(n) == LE(n, 8)

\* putWString: 64-bit character count, then two bytes per character.
EncWString(chars) ==
    LE(Len(chars), 8) \o
    [i \in 1..(2 * Len(chars)) |-> IF i % 2 = 1 THEN chars[(i + 1) \div 2] ELSE 0]

RECURSIVE Horner(_, _, _)
\* The unsigned value of the w little-endian bytes of p after offset off.
Horner(p, off, w) ==
    IF w = 0 THEN 0 ELSE p[off + 1] + 256 * Horner(p, off + 1, w - 1)

\* ReadBuffer::getRawValue<uint64_t> / peek of the length header.
GetUInt64(p, off) == Horner(p, off, 8)

\* ReadBuffer::getInt32: the signed value of four bytes.
GetInt32(p, off) ==
    LET low == Horner(p, off, 3)
        top == p[off + 4]
    IN  IF top >= 128 THEN low + (top - 256) * 16777216
                      ELSE low + top * 16777216

\* Whether w more bytes can be read at offset off (else DecodeError).
CanRead(p, off, w) == off + w <= Len(p)

RECURSIVE SkipWStrings(_, _, _)
\* The offset after k consecutive getWString calls, or -1 on DecodeError.
SkipWStrings(p, off, k) ==
    IF k = 0 THEN off
    ELSE IF ~CanRead(p, off, 8) THEN -1
    ELSE LET n == GetUInt64(p, off)
         IN  IF ~CanRead(p, off + 8, 2 * n) THEN -1
             ELSE SkipWStrings(p, off + 8 + 2 * n, k - 1)

----------------------------------------------------------------------------
(* The frames the host may write.                                          *)

\* A frame whose header declares its true length.
Frame(body) == LE(HeaderSize + Len(body), 8) \o body

\* A frame whose header declares the length `declared` whatever the body.
FrameDeclaring(declared, body) == LE(declared, 8) \o body

StartProcessBody(spawnFlags, wantProcess, wantThread) ==
    EncInt32(MsgStartProcess) \o EncInt64(spawnFlags) \o
    EncInt32(wantProcess) \o EncInt32(wantThread) \o
    EncWString(<< >>) \o EncWString(<< 99 >>) \o EncWString(<< >>) \o
    EncWString(<< >>) \o EncWString(<< >>)

SetSizeBody(cols, rows) ==
    EncInt32(MsgSetSize) \o EncInt32(cols) \o EncInt32(rows)

\* The (cols, rows) pairs the host asks for: in range, on each edge of the
\* range, and just outside each edge.
SetSizeRequests ==
    { << MAX_CONSOLE_WIDTH, BUFFER_LINE_COUNT - 1 >>,
      << 0, 24 >>, << MAX_CONSOLE_WIDTH + 1, 24 >>,
      << 80, 0 >>, << 80, BUFFER_LINE_COUNT >> }

WellFormedFrames ==
    { Frame(StartProcessBody(SpawnFlagAutoShutdown, 1, 1)) }
    \cup { Frame(SetSizeBody(r[1], r[2])) : r \in SetSizeRequests }
    \cup { Frame(EncInt32(7) \o << 1, 2, 3 >>) }

MalformedFrames ==
    { Frame(StartProcessBody(0, 0, 0) \o << 0 >>),       \* trailing byte
      Frame(SubSeq(StartProcessBody(0, 0, 0), 1, 30)),   \* truncated
      Frame(SetSizeBody(80, 24) \o << 0 >>),             \* trailing byte
      Frame(SubSeq(SetSizeBody(80, 24), 1, 8)),          \* rows missing
      Frame(<< 1, 0 >>),                                 \* no room for a type
      FrameDeclaring(HeaderSize - 1, << >>) }            \* shorter than header

\* A header that declares more than the default receive capacity.
OversizeFrames ==
    { FrameDeclaring(InitialReadBufferSize + 1, SetSizeBody(80, 24)) }

HostFrames == WellFormedFrames \cup MalformedFrames \cup OversizeFrames

----------------------------------------------------------------------------
(* State.                                                                  *)

VARIABLES
    status,               \* "constructing", "running", "exiting", "aborted", "destroyed"
    m_useConerr,          \* agentFlags & WINPTY_FLAG_CONERR
    m_plainMode,          \* agentFlags & WINPTY_FLAG_PLAIN_OUTPUT
    markMovesCursor,      \* platform: the MARK syscommand moves the cursor
    selectAllMovesCursor, \* platform: the SELECT_ALL syscommand moves the cursor
    pipeState,            \* conin, conout, conerr: "none", "connecting", "open", "closed"
    bytesToSend,          \* conout, conerr: units queued for sending
    controlClosed,        \* m_controlPipe->isClosed()
    wire,                 \* bytes the host has written that have not arrived yet
    framesSent,           \* frames the host has written so far
    ctrlBuf,              \* bytes buffered in the control pipe's read queue
    readBufferSize,       \* m_controlPipe->readBufferSize()
    replies,              \* frames the agent has written on the control pipe
    m_childProcess,       \* the tracked process handle, 0 for nullptr
    m_autoShutdown,
    m_closingOutputPipes,
    openHandles,          \* handles open in the agent process
    nextHandle,           \* next handle value the OS hands out
    childAlive,           \* the created process is still running
    bufSize,              \* window size of the primary and the error buffer
    mouseRect,            \* the input translator's mouse window rectangle
    frozen,               \* m_console.frozen()
    freezeUsesMark,       \* m_console.setFreezeUsesMark(...)
    consoleTitle,         \* the console's current title
    m_currentTitle,       \* the cached title
    mouseModeEnabled,     \* the primary terminal's mouse mode
    closeCalls,           \* closePipe() calls made by auto-shutdown, per output pipe
    titlesWritten,        \* the titles syncConsoleTitle has written to conout, in order
    ops,                  \* the last handler that had side effects, then those, in order
    dispatched,           \* one record per frame dispatched by the last control event
    requests              \* message type of every frame dispatched so far

vars == << status, m_useConerr, m_plainMode, markMovesCursor,
           selectAllMovesCursor, pipeState, bytesToSend, controlClosed, wire, framesSent, ctrlBuf,
           readBufferSize, replies, m_childProcess, m_autoShutdown,
           m_closingOutputPipes, openHandles, nextHandle, childAlive, bufSize,
           mouseRect, frozen, freezeUsesMark, consoleTitle, m_currentTitle,
           mouseModeEnabled, closeCalls, titlesWritten, ops, dispatched,
           requests >>

DataPipes == << "conin", "conout", "conerr" >>
OutputPipes == { "conout", "conerr" }
Buffers == { "primary", "error" }
Titles == { "", "vim" }

\* GetLastError() values a failed CreateProcessW may leave; 0 is success.
SpawnOutcomes == { 0, 2, 5 }

Max(x, y) == IF x >= y THEN x ELSE y
Min(x, y) == IF x <= y THEN x ELSE y

----------------------------------------------------------------------------
(* Reply encoding: newPacket, put*, writePacket.                           *)

\* newPacket(): a buffer holding the reserved 64-bit size, zero for now.
newPacket == << << "u64", 0 >> >>

putInt32(packet, v) == Append(packet, << "i32", v >>)
putInt64(packet, v) == Append(packet, << "i64", v >>)
putWString(packet, chars) == Append(packet, << "wstr", chars >>)

\* Characters of a string made of pipe names and separators.
RECURSIVE CharCount(_)
CharCount(syms) ==
    IF syms = << >> THEN 0
    ELSE (IF Head(syms) = ", " THEN 2 ELSE 1) + CharCount(Tail(syms))

FieldBytes(f) ==
    CASE f[1] = "u64" -> 8
      [] f[1] = "i64" -> 8
      [] f[1] = "i32" -> 4
      [] f[1] = "wstr" -> 8 + 2 * CharCount(f[2])

RECURSIVE PacketBytes(_)
\* packet.buf().size()
PacketBytes(packet) ==
    IF packet = << >> THEN 0
    ELSE FieldBytes(Head(packet)) + PacketBytes(Tail(packet))

\* writePacket's patch: the reserved size is replaced by the buffer's size.
SealPacket(packet) == [packet EXCEPT ![1] = << "u64", PacketBytes(packet) >>]

\* Agent::writePacket on the threaded agent state a.
writePacket(a, packet) ==
    [a EXCEPT !.replies = Append(@, SealPacket(packet)),
              !.ops = Append(@, "writePacket")]

----------------------------------------------------------------------------
(* The control-pipe handlers.  They run to completion inside one event, so *)
(* they are operators on a record a holding the state they may change:     *)
(* ctrlBuf, readBufferSize, replies, child, autoShutdown, openHandles,     *)
(* nextHandle, childAlive, bufSize, mouseRect, frozen, status, ops,        *)
(* dispatched, requests, osError (what CreateProcessW returned for the     *)
(* frame in hand, -1 if it was not called).  What CreateProcessW does is   *)
(* the operating system's choice, so a handler yields a set of outcomes.   *)

\* A failed ASSERT: the agent process aborts.
Abort(a) == [a EXCEPT !.status = "aborted", !.ops = Append(@, "abort")]

\* Win32Console::FreezeGuard constructor and destructor.
FreezeAcquire(a) == [a EXCEPT !.frozen = TRUE, !.ops = Append(@, "freeze")]
FreezeRelease(a) == [a EXCEPT !.frozen = FALSE, !.ops = Append(@, "unfreeze")]

\* The cols/rows test with rows compared against BUFFER_LINE_COUNT itself.
InvalidSize_RowsOffByOne(cols, rows) ==
    \/ cols < 1
    \/ cols > MAX_CONSOLE_WIDTH
    \/ rows < 1
    \/ rows > BUFFER_LINE_COUNT

\* The cols/rows test at the top of Agent::resizeWindow.
InvalidSize(cols, rows) ==
    \/ cols < 1
    \/ cols > MAX_CONSOLE_WIDTH
    \/ rows < 1
    \/ rows > BUFFER_LINE_COUNT - 1

\* resizeWindow taking the FreezeGuard after the primary buffer's resize.
resizeWindow_LateFreeze(a, cols, rows) ==
    IF InvalidSize(cols, rows) THEN a
    ELSE LET a1 == [a EXCEPT !.bufSize["primary"] = << cols, rows >>,
                             !.ops = Append(@, "resizePrimary")]
             a2 == FreezeAcquire(a1)
             a3 == [a2 EXCEPT !.mouseRect = a2.bufSize["primary"],
                              !.ops = Append(@, "setMouseWindowRect")]
             a4 == IF m_useConerr
                   THEN [a3 EXCEPT !.bufSize["error"] = << cols, rows >>,
                                   !.ops = Append(@, "resizeError")]
                   ELSE a3
         IN  FreezeRelease(a4)

\* resizeWindow leaving the error buffer out.
resizeWindow_PrimaryOnly(a, cols, rows) ==
    IF InvalidSize(cols, rows) THEN a
    ELSE LET a1 == FreezeAcquire(a)
             a2 == [a1 EXCEPT !.bufSize["primary"] = << cols, rows >>,
                              !.ops = Append(@, "resizePrimary")]
             a3 == [a2 EXCEPT !.mouseRect = a2.bufSize["primary"],
                              !.ops = Append(@, "setMouseWindowRect")]
         IN  FreezeRelease(a3)

\* Agent::resizeWindow
resizeWindow(a, cols, rows) ==
    IF InvalidSize(cols, rows) THEN a
    ELSE LET a1 == FreezeAcquire(a)
             a2 == [a1 EXCEPT !.bufSize["primary"] = << cols, rows >>,
                              !.ops = Append(@, "resizePrimary")]
             a3 == [a2 EXCEPT !.mouseRect = a2.bufSize["primary"],
                              !.ops = Append(@, "setMouseWindowRect")]
             a4 == IF m_useConerr
                   THEN [a3 EXCEPT !.bufSize["error"] = << cols, rows >>,
                                   !.ops = Append(@, "resizeError")]
                   ELSE a3
         IN  FreezeRelease(a4)

\* handleSetSizePacket without packet.assertEof().
handleSetSizePacket_NoAssertEof(a, p) ==
    IF ~CanRead(p, 12, 4) \/ ~CanRead(p, 16, 4) THEN Abort(a)
    ELSE LET cols == GetInt32(p, 12)
             rows == GetInt32(p, 16)
         IN  writePacket(resizeWindow(a, cols, rows), newPacket)

\* Agent::handleSetSizePacket; p is the whole frame, the body starts at 12.
handleSetSizePacket(a, p) ==
    IF ~CanRead(p, 12, 4) \/ ~CanRead(p, 16, 4) \/ Len(p) # 20 THEN Abort(a)
    ELSE LET cols == GetInt32(p, 12)
             rows == GetInt32(p, 16)
         IN  writePacket(resizeWindow(a, cols, rows), newPacket)

\* ConnectingFrom with the loop stopping short of the list's last pipe.
ConnectingFrom_SkipLast(list) ==
    SelectSeq(SubSeq(list, 1, Len(list) - 1),
              LAMBDA pipe : pipeState[pipe] = "connecting")

RECURSIVE ConnectingFrom(_)
\* The pipes of the list { m_coninPipe, m_conoutPipe, m_conerrPipe } that
\* exist and are still connecting, in list order.
ConnectingFrom(list) ==
    IF list = << >> THEN << >>
    ELSE (IF pipeState[Head(list)] = "connecting" THEN << Head(list) >> ELSE << >>)
         \o ConnectingFrom(Tail(list))

RECURSIVE JoinNames(_)
\* pipeList: the names, each but the first preceded by ", ".
JoinNames(names) ==
    IF names = << >> THEN << >>
    ELSE IF Len(names) = 1 THEN names
    ELSE JoinNames(SubSeq(names, 1, Len(names) - 1))
         \o << ", ", names[Len(names)] >>

\* The fields of a StartProcess frame, or ok = FALSE on DecodeError.
ParseStartProcess(p) ==
    IF ~CanRead(p, 12, 16) THEN [ok |-> FALSE]
    ELSE LET end == SkipWStrings(p, 28, 5)
         IN  IF end = -1 \/ end # Len(p) THEN [ok |-> FALSE]
             ELSE [ok |-> TRUE,
                   spawnFlags |-> GetUInt64(p, 12),
                   wantProcessHandle |-> GetInt32(p, 20) # 0,
                   wantThreadHandle |-> GetInt32(p, 24) # 0]

\* The success branch: duplicate, close the thread handle, track the child.
SpawnSucceeded(a, r) ==
    LET hProcess == a.nextHandle
        hThread == a.nextHandle + 1
        dupProcess == IF r.wantProcessHandle THEN a.nextHandle + 2 ELSE 0
        dupThread == IF r.wantThreadHandle
                     THEN a.nextHandle + (IF r.wantProcessHandle THEN 3 ELSE 2)
                     ELSE 0
        reply == putInt64(putInt64(putInt32(newPacket, ProcessCreated),
                                   dupProcess), dupThread)
        a1 == [a EXCEPT
                 !.nextHandle = @ + 2 + (IF r.wantProcessHandle THEN 1 ELSE 0)
                                  + (IF r.wantThreadHandle THEN 1 ELSE 0),
                 !.openHandles = (@ \cup { hProcess, dupProcess, dupThread }) \ { 0 },
                 !.childAlive = TRUE,
                 !.child = hProcess,
                 !.autoShutdown = (r.spawnFlags % 2 = SpawnFlagAutoShutdown),
                 !.osError = 0,
                 !.ops = @ \o << "CreateProcess", "closeThreadHandle" >>]
    IN  writePacket(a1, reply)

\* The failure branch with lastError taken as on success.
SpawnFailed_ZeroError(a, lastError) ==
    writePacket([a EXCEPT !.osError = lastError,
                          !.ops = Append(@, "CreateProcess")],
                putInt32(putInt32(newPacket, CreateProcessFailed), 0))

\* The failure branch: reply with GetLastError().
SpawnFailed(a, lastError) ==
    writePacket([a EXCEPT !.osError = lastError,
                          !.ops = Append(@, "CreateProcess")],
                putInt32(putInt32(newPacket, CreateProcessFailed), lastError))

\* handleStartProcessPacket without ASSERT(!m_closingOutputPipes).
handleStartProcessPacket_NoClosingAssert(a, p) ==
    IF a.child # 0 THEN { Abort(a) }
    ELSE LET r == ParseStartProcess(p)
             pipeList == JoinNames(ConnectingFrom(DataPipes))
         IN  IF ~r.ok THEN { Abort(a) }
             ELSE IF pipeList # << >>
             THEN { writePacket(a, putWString(putInt32(newPacket, PipesStillOpen),
                                              pipeList)) }
             ELSE { IF outcome = 0 THEN SpawnSucceeded(a, r)
                                   ELSE SpawnFailed(a, outcome) :
                    outcome \in SpawnOutcomes }

\* Agent::handleStartProcessPacket: the states it may end in, one for each
\* thing CreateProcessW may do (0 success, else the error code).
handleStartProcessPacket(a, p) ==
    IF a.child # 0 \/ m_closingOutputPipes THEN { Abort(a) }
    ELSE LET r == ParseStartProcess(p)
             pipeList == JoinNames(ConnectingFrom(DataPipes))
         IN  IF ~r.ok THEN { Abort(a) }
             ELSE IF pipeList # << >>
             THEN { writePacket(a, putWString(putInt32(newPacket, PipesStillOpen),
                                              pipeList)) }
             ELSE { IF outcome = 0 THEN SpawnSucceeded(a, r)
                                   ELSE SpawnFailed(a, outcome) :
                    outcome \in SpawnOutcomes }

\* What a frame is dispatched as.
KindOf(p) ==
    IF ~CanRead(p, 8, 4) THEN "Undecodable"
    ELSE CASE GetInt32(p, 8) = MsgStartProcess -> "StartProcess"
           [] GetInt32(p, 8) = MsgSetSize -> "SetSize"
           [] OTHER -> "Unrecognized"

\* handlePacket acknowledging a message type it does not know.
handlePacket_AckUnknown(a, p) ==
    CASE KindOf(p) = "Undecodable" -> { Abort(a) }
      [] KindOf(p) = "StartProcess" -> handleStartProcessPacket(a, p)
      [] KindOf(p) = "SetSize" -> { handleSetSizePacket(a, p) }
      [] OTHER -> { writePacket(a, newPacket) }

\* Agent::handlePacket, with the DecodeError catch of pollControlPipe.
handlePacket(a, p) ==
    CASE KindOf(p) = "Undecodable" -> { Abort(a) }
      [] KindOf(p) = "StartProcess" -> handleStartProcessPacket(a, p)
      [] KindOf(p) = "SetSize" -> { handleSetSizePacket(a, p) }
      [] OTHER -> { a }

\* The controller state a request may change, as seen before and after it.
Snap(a) ==
    [child |-> a.child, autoShutdown |-> a.autoShutdown,
     openHandles |-> a.openHandles, childAlive |-> a.childAlive,
     bufSize |-> a.bufSize, mouseRect |-> a.mouseRect, frozen |-> a.frozen,
     nReplies |-> Len(a.replies), status |-> a.status,
     pipes |-> pipeState, closing |-> m_closingOutputPipes]

\* One round of the while loop after the frame is known to be buffered:
\* read packetSize bytes, dispatch, and note what the dispatch did.
DispatchFrame(a, packetSize) ==
    LET packetData == SubSeq(a.ctrlBuf, 1, packetSize)
        a1 == [a EXCEPT !.ctrlBuf = SubSeq(@, packetSize + 1, Len(@)),
                        !.osError = -1]
        Noted(a2) ==
            LET note == [kind |-> KindOf(packetData),
                         packet |-> packetData,
                         osError |-> a2.osError,
                         declared |-> packetSize,
                         consumed |-> Len(a.ctrlBuf) - Len(a1.ctrlBuf),
                         buffered |-> Len(a.ctrlBuf),
                         pre |-> Snap(a1), post |-> Snap(a2),
                         ops |-> SubSeq(a2.ops, Len(a1.ops) + 1, Len(a2.ops))]
            IN  [a2 EXCEPT !.dispatched = Append(@, note),
                           !.requests = Append(@, note.kind)]
    IN  { Noted(a2) : a2 \in handlePacket(a1, packetData) }

RECURSIVE PollLoop_NoGrow(_)
\* The loop without the setReadBufferSize call.
PollLoop_NoGrow(a) ==
    IF a.status # "running" THEN { a }
    ELSE IF Len(a.ctrlBuf) < HeaderSize THEN { a }
    ELSE LET packetSize == GetUInt64(a.ctrlBuf, 0)
         IN  IF packetSize < HeaderSize THEN { Abort(a) }
             ELSE IF Len(a.ctrlBuf) < packetSize THEN { a }
             ELSE UNION { PollLoop_NoGrow(b) : b \in DispatchFrame(a, packetSize) }

\* The loop body run once: one frame per readiness event.
PollLoop_OneFrame(a) ==
    IF a.status # "running" THEN { a }
    ELSE IF Len(a.ctrlBuf) < HeaderSize THEN { a }
    ELSE LET packetSize == GetUInt64(a.ctrlBuf, 0)
         IN  IF packetSize < HeaderSize THEN { Abort(a) }
             ELSE IF Len(a.ctrlBuf) < packetSize
             THEN { [a EXCEPT !.readBufferSize = Max(@, packetSize)] }
             ELSE DispatchFrame(a, packetSize)

RECURSIVE PollLoop(_)
\* The while (true) loop of Agent::pollControlPipe.  In the model every
\* declared length is below 2^32, so packetSize <= SIZE_MAX always holds.
PollLoop(a) ==
    IF a.status # "running" THEN { a }
    ELSE IF Len(a.ctrlBuf) < HeaderSize THEN { a }
    ELSE LET packetSize == GetUInt64(a.ctrlBuf, 0)
         IN  IF packetSize < HeaderSize THEN { Abort(a) }
             ELSE IF Len(a.ctrlBuf) < packetSize
             THEN { [a EXCEPT !.readBufferSize = Max(@, packetSize)] }
             ELSE UNION { PollLoop(b) : b \in DispatchFrame(a, packetSize) }

\* pollControlPipe handling what is buffered before it looks at isClosed().
pollControlPipe_DrainFirst(a, closed) ==
    IF closed THEN { [b EXCEPT !.status = IF @ = "running" THEN "exiting" ELSE @,
                               !.ops = Append(@, "shutdown")] : b \in PollLoop(a) }
    ELSE PollLoop(a)

\* Agent::pollControlPipe
pollControlPipe(a, closed) ==
    IF closed THEN { [a EXCEPT !.status = "exiting",
                               !.ops = Append(@, "shutdown")] }
    ELSE PollLoop(a)

----------------------------------------------------------------------------
(* The periodic tick.  Its steps are operators on a record t holding       *)
(* pipeState, bytesToSend, child, closing, openHandles, currentTitle,      *)
(* mouseModeEnabled, mouseRect, frozen, closeCalls, titlesWritten and ops. *)

\* NamedPipe::write: the data joins the pipe's send queue.
PipeWrite(t, pipe, n) == [t EXCEPT !.bytesToSend[pipe] = @ + n]

\* autoClosePipesForShutdown without the bytesToSend() test on CONOUT.
autoClosePipesForShutdown_NoDrainTest(t) ==
    IF ~t.closing THEN t
    ELSE LET t1 == IF t.pipeState["conout"] # "closed"
                   THEN [t EXCEPT !.pipeState["conout"] = "closed",
                                  !.closeCalls["conout"] = @ + 1,
                                  !.ops = Append(@, "closeConout")]
                   ELSE t
         IN  IF /\ t1.pipeState["conerr"] # "none"
                /\ t1.pipeState["conerr"] # "closed"
                /\ t1.bytesToSend["conerr"] = 0
             THEN [t1 EXCEPT !.pipeState["conerr"] = "closed",
                             !.closeCalls["conerr"] = @ + 1,
                             !.ops = Append(@, "closeConerr")]
             ELSE t1

\* Agent::autoClosePipesForShutdown
autoClosePipesForShutdown(t) ==
    IF ~t.closing THEN t
    ELSE LET t1 == IF t.pipeState["conout"] # "closed" /\ t.bytesToSend["conout"] = 0
                   THEN [t EXCEPT !.pipeState["conout"] = "closed",
                                  !.closeCalls["conout"] = @ + 1,
                                  !.ops = Append(@, "closeConout")]
                   ELSE t
         IN  IF /\ t1.pipeState["conerr"] # "none"
                /\ t1.pipeState["conerr"] # "closed"
                /\ t1.bytesToSend["conerr"] = 0
             THEN [t1 EXCEPT !.pipeState["conerr"] = "closed",
                             !.closeCalls["conerr"] = @ + 1,
                             !.ops = Append(@, "closeConerr")]
             ELSE t1

\* syncConsoleTitle without the assignment to m_currentTitle.
syncConsoleTitle_StaleCache(t) ==
    LET t1 == [t EXCEPT !.ops = Append(@, "syncConsoleTitle")]
    IN  IF consoleTitle # t1.currentTitle
        THEN [PipeWrite(t1, "conout", 1) EXCEPT !.titlesWritten = Append(@, consoleTitle),
                                                !.ops = Append(@, "writeTitle")]
        ELSE t1

\* Agent::syncConsoleTitle
syncConsoleTitle(t) ==
    LET t1 == [t EXCEPT !.ops = Append(@, "syncConsoleTitle")]
    IN  IF consoleTitle # t1.currentTitle
        THEN [PipeWrite(t1, "conout", 1) EXCEPT !.currentTitle = consoleTitle,
                                                !.titlesWritten = Append(@, consoleTitle),
                                                !.ops = Append(@, "writeTitle")]
        ELSE t1

\* scrapeBuffers without the FreezeGuard.
scrapeBuffers_Unguarded(t, out1, out2) ==
    LET t2 == [PipeWrite(t, "conout", out1) EXCEPT !.ops = Append(@, "scrapePrimary")]
        t3 == [t2 EXCEPT !.mouseRect = bufSize["primary"],
                         !.ops = Append(@, "setMouseWindowRect")]
    IN  IF m_useConerr
        THEN [PipeWrite(t3, "conerr", out2) EXCEPT !.ops = Append(@, "scrapeError")]
        ELSE t3

\* Agent::scrapeBuffers; out1 and out2 are the units the two scrapers emit.
scrapeBuffers(t, out1, out2) ==
    LET t1 == [t EXCEPT !.frozen = TRUE, !.ops = Append(@, "freeze")]
        t2 == [PipeWrite(t1, "conout", out1) EXCEPT !.ops = Append(@, "scrapePrimary")]
        t3 == [t2 EXCEPT !.mouseRect = bufSize["primary"],
                         !.ops = Append(@, "setMouseWindowRect")]
        t4 == IF m_useConerr
              THEN [PipeWrite(t3, "conerr", out2) EXCEPT !.ops = Append(@, "scrapeError")]
              ELSE t3
    IN  [t4 EXCEPT !.frozen = FALSE, !.ops = Append(@, "unfreeze")]

\* Terminal::enableMouseMode on the primary terminal.
enableMouseMode(t, enabled) ==
    LET t1 == [t EXCEPT !.ops = Append(@, IF enabled THEN "mouseOn" ELSE "mouseOff")]
    IN  IF t1.mouseModeEnabled = enabled \/ m_plainMode THEN t1
        ELSE [PipeWrite(t1, "conout", 1) EXCEPT !.mouseModeEnabled = enabled]

\* The exit check without the m_autoShutdown test.
ChildExitDetected_IgnoresFlag(t) ==
    t.child # 0 /\ ~childAlive

\* The exit check of Agent::onPollTimeout.
ChildExitDetected(t) ==
    m_autoShutdown /\ t.child # 0 /\ ~childAlive

\* onPollTimeout with shouldScrapeContent read after the exit check.
onPollTimeout_FlagAfterExitCheck(t, enableMouse, out1, out2) ==
    LET t1 == IF ChildExitDetected(t)
              THEN [t EXCEPT !.openHandles = @ \ { t.child },
                             !.child = 0,
                             !.closing = TRUE,
                             !.ops = @ \o << "closeChildHandle", "enterClosing" >>]
              ELSE t
        shouldScrapeContent == ~t1.closing
        t2 == IF shouldScrapeContent
              THEN scrapeBuffers(syncConsoleTitle(t1), out1, out2)
              ELSE t1
        t3 == enableMouseMode(t2, enableMouse /\ ~t2.closing)
    IN  autoClosePipesForShutdown(t3)

\* onPollTimeout passing the input translator's flag on as it is.
onPollTimeout_MouseFlagUnmasked(t, enableMouse, out1, out2) ==
    LET shouldScrapeContent == ~t.closing
        t1 == IF ChildExitDetected(t)
              THEN [t EXCEPT !.openHandles = @ \ { t.child },
                             !.child = 0,
                             !.closing = TRUE,
                             !.ops = @ \o << "closeChildHandle", "enterClosing" >>]
              ELSE t
        t2 == IF shouldScrapeContent
              THEN scrapeBuffers(syncConsoleTitle(t1), out1, out2)
              ELSE t1
        t3 == enableMouseMode(t2, enableMouse)
    IN  autoClosePipesForShutdown(t3)

\* onPollTimeout leaving m_childProcess set after CloseHandle.
onPollTimeout_KeepsHandle(t, enableMouse, out1, out2) ==
    LET shouldScrapeContent == ~t.closing
        t1 == IF ChildExitDetected(t)
              THEN [t EXCEPT !.openHandles = @ \ { t.child },
                             !.closing = TRUE,
                             !.ops = @ \o << "closeChildHandle", "enterClosing" >>]
              ELSE t
        t2 == IF shouldScrapeContent
              THEN scrapeBuffers(syncConsoleTitle(t1), out1, out2)
              ELSE t1
        t3 == enableMouseMode(t2, enableMouse /\ ~t2.closing)
    IN  autoClosePipesForShutdown(t3)

\* Agent::onPollTimeout
onPollTimeout(t, enableMouse, out1, out2) ==
    LET shouldScrapeContent == ~t.closing
        t1 == IF ChildExitDetected(t)
              THEN [t EXCEPT !.openHandles = @ \ { t.child },
                             !.child = 0,
                             !.closing = TRUE,
                             !.ops = @ \o << "closeChildHandle", "enterClosing" >>]
              ELSE t
        t2 == IF shouldScrapeContent
              THEN scrapeBuffers(syncConsoleTitle(t1), out1, out2)
              ELSE t1
        t3 == enableMouseMode(t2, enableMouse /\ ~t2.closing)
    IN  autoClosePipesForShutdown(t3)

\* The tick's and the output events' view of the current state.
TickState ==
    [pipeState |-> pipeState, bytesToSend |-> bytesToSend,
     child |-> m_childProcess, closing |-> m_closingOutputPipes,
     openHandles |-> openHandles, currentTitle |-> m_currentTitle,
     mouseModeEnabled |-> mouseModeEnabled, mouseRect |-> mouseRect,
     frozen |-> frozen, closeCalls |-> closeCalls,
     titlesWritten |-> titlesWritten, ops |-> << >>]

\* Store a tick record back into the variables it covers.
SetTickState(t) ==
    /\ pipeState' = t.pipeState
    /\ bytesToSend' = t.bytesToSend
    /\ m_childProcess' = t.child
    /\ m_closingOutputPipes' = t.closing
    /\ openHandles' = t.openHandles
    /\ m_currentTitle' = t.currentTitle
    /\ mouseModeEnabled' = t.mouseModeEnabled
    /\ mouseRect' = t.mouseRect
    /\ frozen' = t.frozen
    /\ closeCalls' = t.closeCalls
    /\ titlesWritten' = t.titlesWritten
    /\ ops' = IF t.ops = << >> THEN ops ELSE << "onPipeIo" >> \o t.ops

\* The same for the periodic tick.
SetTimeoutState(t) ==
    /\ pipeState' = t.pipeState
    /\ bytesToSend' = t.bytesToSend
    /\ m_childProcess' = t.child
    /\ m_closingOutputPipes' = t.closing
    /\ openHandles' = t.openHandles
    /\ m_currentTitle' = t.currentTitle
    /\ mouseModeEnabled' = t.mouseModeEnabled
    /\ mouseRect' = t.mouseRect
    /\ frozen' = t.frozen
    /\ closeCalls' = t.closeCalls
    /\ titlesWritten' = t.titlesWritten
    /\ ops' = << "onPollTimeout" >> \o t.ops

----------------------------------------------------------------------------
(* Initial state and construction.                                         *)

\* initialCols, initialRows as passed on the agent's command line.
InitialSize == << 80, 25 >>

\* The process before Agent::Agent runs: only the configuration (the agent
\* flags and the platform's console) is fixed.
InitWith(conerrFlags, plainFlags, platforms, selectAlls) ==
    /\ status = "constructing"
    /\ m_useConerr \in conerrFlags
    /\ m_plainMode \in plainFlags
    /\ markMovesCursor \in platforms
    /\ selectAllMovesCursor \in selectAlls
    /\ pipeState = [p \in { "conin", "conout", "conerr" } |-> "none"]
    /\ bytesToSend = [p \in OutputPipes |-> 0]
    /\ controlClosed = FALSE
    /\ wire = << >>
    /\ framesSent = 0
    /\ ctrlBuf = << >>
    /\ readBufferSize = 0
    /\ replies = << >>
    /\ m_childProcess = 0
    /\ m_autoShutdown = FALSE
    /\ m_closingOutputPipes = FALSE
    /\ openHandles = { }
    /\ nextHandle = 1
    /\ childAlive = FALSE
    /\ bufSize = [b \in Buffers |-> << 0, 0 >>]
    /\ mouseRect = << 0, 0 >>
    /\ frozen = FALSE
    /\ freezeUsesMark = FALSE
    /\ consoleTitle = "vim"
    /\ m_currentTitle = ""
    /\ mouseModeEnabled = FALSE
    /\ closeCalls = [p \in OutputPipes |-> 0]
    /\ titlesWritten = << >>
    /\ ops = << >>
    /\ dispatched = << >>
    /\ requests = << >>

\* buffer.cursorPosition() while the console is frozen by the MARK
\* (usesMark) or the SELECT_ALL syscommand, the cursor having been at
\* position; a syscommand that moves the cursor takes it to the origin.
CursorWhenFrozen(usesMark, position) ==
    IF (usesMark /\ markMovesCursor) \/ (~usesMark /\ selectAllMovesCursor)
    THEN << 0, 0 >>
    ELSE position

\* initConsoleFreezeMethod with the comparison's outcome inverted.
initConsoleFreezeMethod_Inverted ==
    LET initialPosition == << 1, 1 >>
        useMark == (CursorWhenFrozen(TRUE, initialPosition) # initialPosition)
    IN  [useMark |-> useMark,
         frozen |-> FALSE,
         ops |-> << "resizeBuffer", "moveWindow", "setCursorPosition",
                    "freeze", "readCursor", "unfreeze" >>]

\* initConsoleFreezeMethod: with the cursor put at (1, 1), freeze with MARK
\* and see whether the cursor is still there.  The console is unfrozen when
\* the constructor runs, so ASSERT(!console.frozen()) passes.
initConsoleFreezeMethod ==
    LET initialPosition == << 1, 1 >>
        useMark == (CursorWhenFrozen(TRUE, initialPosition) = initialPosition)
    IN  [useMark |-> useMark,
         frozen |-> FALSE,
         ops |-> << "resizeBuffer", "moveWindow", "setCursorPosition",
                    "freeze", "readCursor", "unfreeze" >>]

\* The setup packet with the conout name put before the conin name.
SetupPacket_OutputFirst ==
    LET p1 == putWString(newPacket, << "conout" >>)
        p2 == putWString(p1, << "conin" >>)
    IN  IF m_useConerr THEN putWString(p2, << "conerr" >>) ELSE p2

\* The setup packet: the data pipe names, conerr only when configured.
SetupPacket ==
    LET p1 == putWString(newPacket, << "conin" >>)
        p2 == putWString(p1, << "conout" >>)
    IN  IF m_useConerr THEN putWString(p2, << "conerr" >>) ELSE p2

\* Agent::Agent
AgentCtor ==
    /\ status = "constructing"
    /\ status' = "running"
    /\ freezeUsesMark' = initConsoleFreezeMethod.useMark
    /\ frozen' = initConsoleFreezeMethod.frozen
    /\ readBufferSize' = InitialReadBufferSize
    /\ pipeState' = [p \in { "conin", "conout", "conerr" } |->
                        IF p = "conerr" /\ ~m_useConerr THEN "none" ELSE "connecting"]
    /\ replies' = << SealPacket(SetupPacket) >>
    /\ bufSize' = [b \in Buffers |->
                      IF b = "error" /\ ~m_useConerr THEN << 0, 0 >> ELSE InitialSize]
    /\ consoleTitle' = m_currentTitle
    /\ ops' = << "Agent" >> \o initConsoleFreezeMethod.ops \o
              << "createPipes", "writePacket", "createScrapers", "setTitle" >>
    /\ UNCHANGED << m_useConerr, m_plainMode, markMovesCursor, selectAllMovesCursor, bytesToSend,
                    controlClosed, wire, framesSent, ctrlBuf, m_childProcess,
                    m_autoShutdown, m_closingOutputPipes, openHandles,
                    nextHandle, childAlive, mouseRect, m_currentTitle,
                    mouseModeEnabled, closeCalls, titlesWritten, dispatched, requests >>

----------------------------------------------------------------------------
(* The host and the operating system.                                      *)

RECURSIVE Concat(_)
\* The bytes of a sequence of frames written back to back.
Concat(frames) ==
    IF frames = << >> THEN << >> ELSE Head(frames) \o Concat(Tail(frames))

\* The sequences of one to `most` frames drawn from `menu`.
Batches(menu, most) ==
    UNION { [1..k -> menu] : k \in 1..most }

\* The host writes a batch of frames on the control pipe, once everything
\* it wrote before has arrived.
HostWrite(batch) ==
    /\ status = "running"
    /\ ~controlClosed
    /\ wire = << >>
    /\ framesSent + Len(batch) <= MaxFrames
    /\ wire' = Concat(batch)
    /\ framesSent' = framesSent + Len(batch)
    /\ UNCHANGED << status, m_useConerr, m_plainMode, markMovesCursor, selectAllMovesCursor,
                    pipeState, bytesToSend, controlClosed, ctrlBuf,
                    readBufferSize, replies, m_childProcess, m_autoShutdown,
                    m_closingOutputPipes, openHandles, nextHandle, childAlive,
                    bufSize, mouseRect, frozen, freezeUsesMark, consoleTitle,
                    m_currentTitle, mouseModeEnabled, closeCalls, titlesWritten, ops, dispatched,
                    requests >>

\* The child process exits.
ChildExits ==
    /\ status = "running"
    /\ childAlive
    /\ childAlive' = FALSE
    /\ UNCHANGED << status, m_useConerr, m_plainMode, markMovesCursor, selectAllMovesCursor,
                    pipeState, bytesToSend, controlClosed, wire, framesSent,
                    ctrlBuf, readBufferSize, replies, m_childProcess,
                    m_autoShutdown, m_closingOutputPipes, openHandles,
                    nextHandle, bufSize, mouseRect, frozen, freezeUsesMark,
                    consoleTitle, m_currentTitle, mouseModeEnabled, closeCalls, titlesWritten,
                    ops, dispatched, requests >>

\* A program in the console changes the console title.
TitleChanges(title) ==
    /\ status = "running"
    /\ title # consoleTitle
    /\ Len(titlesWritten) < MaxTitles
    /\ consoleTitle' = title
    /\ UNCHANGED << status, m_useConerr, m_plainMode, markMovesCursor, selectAllMovesCursor,
                    pipeState, bytesToSend, controlClosed, wire, framesSent,
                    ctrlBuf, readBufferSize, replies, m_childProcess,
                    m_autoShutdown, m_closingOutputPipes, openHandles,
                    nextHandle, childAlive, bufSize, mouseRect, frozen,
                    freezeUsesMark, m_currentTitle, mouseModeEnabled, closeCalls, titlesWritten,
                    ops, dispatched, requests >>

----------------------------------------------------------------------------
(* The event loop's callbacks.                                             *)

\* The sizes in which the host's bytes may arrive in one event: a short
\* read while little is buffered (so that a header, and then a frame, is
\* seen incomplete), everything but the tail of the last frame, or all.
ArrivalSizes ==
    { n \in 1..Len(wire) : \/ n = 6 /\ Len(ctrlBuf) < 12
                           \/ n = Len(wire) - 6
                           \/ n = Len(wire) }

\* The control handlers' view of the current state.
ControlState(buf) ==
    [ctrlBuf |-> buf, readBufferSize |-> readBufferSize, replies |-> replies,
     child |-> m_childProcess, autoShutdown |-> m_autoShutdown,
     openHandles |-> openHandles, nextHandle |-> nextHandle,
     childAlive |-> childAlive, bufSize |-> bufSize, mouseRect |-> mouseRect,
     frozen |-> frozen, status |-> status, ops |-> << "pollControlPipe" >>,
     dispatched |-> << >>, requests |-> requests, osError |-> -1]

\* Store a control record back into the variables it covers.
SetControlState(a) ==
    /\ ctrlBuf' = a.ctrlBuf
    /\ readBufferSize' = a.readBufferSize
    /\ replies' = a.replies
    /\ m_childProcess' = a.child
    /\ m_autoShutdown' = a.autoShutdown
    /\ openHandles' = a.openHandles
    /\ nextHandle' = a.nextHandle
    /\ childAlive' = a.childAlive
    /\ bufSize' = a.bufSize
    /\ mouseRect' = a.mouseRect
    /\ frozen' = a.frozen
    /\ status' = a.status
    /\ ops' = a.ops
    /\ dispatched' = a.dispatched
    /\ requests' = a.requests

\* onPipeIo(m_controlPipe): n more bytes have been read into the pipe's
\* buffer, the pipe may have failed (closed), then pollControlPipe runs.
OnControlPipeIo(n, closed) ==
    /\ status = "running"
    /\ ~controlClosed
    /\ n > 0 \/ closed
    /\ Len(ctrlBuf) + n <= readBufferSize
    /\ wire' = SubSeq(wire, n + 1, Len(wire))
    /\ controlClosed' = closed
    /\ \E a \in pollControlPipe(ControlState(ctrlBuf \o SubSeq(wire, 1, n)),
                                 closed) : SetControlState(a)
    /\ UNCHANGED << m_useConerr, m_plainMode, markMovesCursor, selectAllMovesCursor, pipeState,
                    bytesToSend, framesSent, m_closingOutputPipes,
                    freezeUsesMark, consoleTitle, m_currentTitle,
                    mouseModeEnabled, closeCalls, titlesWritten >>

\* onPipeIo taking no notice of events on the output pipes' send queues.
OnOutputPipeIo_NoAutoClose(pipe, event, n) ==
    /\ status = "running"
    /\ pipe \in OutputPipes
    /\ \/ /\ event = "connected"
          /\ pipeState[pipe] = "connecting"
          /\ n = 0
          /\ SetTickState([TickState EXCEPT !.pipeState[pipe] = "open"])
       \/ /\ event = "sent"
          /\ pipeState[pipe] = "open"
          /\ n \in 1..bytesToSend[pipe]
          /\ SetTickState([TickState EXCEPT !.bytesToSend[pipe] = @ - n])
       \/ /\ event = "failed"
          /\ pipeState[pipe] = "open"
          /\ n = 0
          /\ SetTickState([TickState EXCEPT !.pipeState[pipe] = "closed"])
    /\ UNCHANGED << status, m_useConerr, m_plainMode, markMovesCursor, selectAllMovesCursor,
                    controlClosed, wire, framesSent, ctrlBuf, readBufferSize,
                    replies, m_autoShutdown, nextHandle, childAlive, bufSize,
                    freezeUsesMark, consoleTitle, dispatched, requests >>

\* onPipeIo(m_conoutPipe / m_conerrPipe): the host has connected, or has
\* read n queued units, or the pipe has failed; then the auto-close check.
OnOutputPipeIo(pipe, event, n) ==
    /\ status = "running"
    /\ pipe \in OutputPipes
    /\ \/ /\ event = "connected"
          /\ pipeState[pipe] = "connecting"
          /\ n = 0
          /\ \E t \in { autoClosePipesForShutdown(
                          [TickState EXCEPT !.pipeState[pipe] = "open"]) } :
                SetTickState(t)
       \/ /\ event = "sent"
          /\ pipeState[pipe] = "open"
          /\ n \in 1..bytesToSend[pipe]
          /\ \E t \in { autoClosePipesForShutdown(
                          [TickState EXCEPT !.bytesToSend[pipe] = @ - n]) } :
                SetTickState(t)
       \/ /\ event = "failed"
          /\ pipeState[pipe] = "open"
          /\ n = 0
          /\ \E t \in { autoClosePipesForShutdown(
                          [TickState EXCEPT !.pipeState[pipe] = "closed"]) } :
                SetTickState(t)
    /\ UNCHANGED << status, m_useConerr, m_plainMode, markMovesCursor, selectAllMovesCursor,
                    controlClosed, wire, framesSent, ctrlBuf, readBufferSize,
                    replies, m_autoShutdown, nextHandle, childAlive, bufSize,
                    freezeUsesMark, consoleTitle, dispatched, requests >>

\* Agent::sendDsr, called back by the input translator.
sendDsr(t) ==
    IF ~m_plainMode /\ t.pipeState["conout"] # "closed"
    THEN [PipeWrite(t, "conout", 1) EXCEPT !.ops = Append(@, "writeDsr")]
    ELSE t

\* onPipeIo(m_coninPipe): the host has connected, or input has arrived and
\* pollConinPipe feeds it to the input translator (which may ask for a DSR).
OnConinPipeIo(event, dsr) ==
    /\ status = "running"
    /\ \/ /\ event = "connected"
          /\ pipeState["conin"] = "connecting"
          /\ ~dsr
          /\ SetTickState([TickState EXCEPT !.pipeState["conin"] = "open"])
       \/ /\ event = "input"
          /\ pipeState["conin"] = "open"
          /\ \E t \in { IF dsr THEN sendDsr(TickState) ELSE TickState } :
                /\ t.bytesToSend["conout"] <= MaxPending
                /\ SetTickState(t)
    /\ UNCHANGED << status, m_useConerr, m_plainMode, markMovesCursor, selectAllMovesCursor,
                    controlClosed, wire, framesSent, ctrlBuf, readBufferSize,
                    replies, m_autoShutdown, nextHandle, childAlive, bufSize,
                    freezeUsesMark, consoleTitle, dispatched, requests >>

\* The periodic timeout.  enableMouse is what updateMouseInputFlags returns;
\* out1 and out2 are the units the scrapers would emit on this tick.
OnPollTimeout(enableMouse, out1, out2) ==
    /\ status = "running"
    /\ m_useConerr \/ out2 = 0
    /\ \E t \in { onPollTimeout(TickState, enableMouse, out1, out2) } :
          /\ \A p \in OutputPipes : t.bytesToSend[p] <= MaxPending
          /\ SetTimeoutState(t)
    /\ UNCHANGED << status, m_useConerr, m_plainMode, markMovesCursor, selectAllMovesCursor,
                    controlClosed, wire, framesSent, ctrlBuf, readBufferSize,
                    replies, m_autoShutdown, nextHandle, childAlive, bufSize,
                    freezeUsesMark, consoleTitle, dispatched, requests >>

\* Agent::~Agent, once shutdown() has stopped the loop.
AgentDtor ==
    /\ status = "exiting"
    /\ status' = "destroyed"
    /\ openHandles' = openHandles \ { m_childProcess }
    /\ ops' = IF m_childProcess # 0
              THEN << "~Agent", "agentShutdown", "closeChildHandle" >>
              ELSE << "~Agent", "agentShutdown" >>
    /\ UNCHANGED << m_useConerr, m_plainMode, markMovesCursor, selectAllMovesCursor, pipeState,
                    bytesToSend, controlClosed, wire, framesSent, ctrlBuf,
                    readBufferSize, replies, m_childProcess, m_autoShutdown,
                    m_closingOutputPipes, nextHandle, childAlive, bufSize,
                    mouseRect, frozen, freezeUsesMark, consoleTitle,
                    m_currentTitle, mouseModeEnabled, closeCalls, titlesWritten, dispatched,
                    requests >>

----------------------------------------------------------------------------
(* Specifications.                                                         *)

\* The control protocol: every frame the host may write, arriving in any
\* of the modelled splits, with the pipes, the child and the tick running
\* alongside (the console title, the mouse flag and DSR requests at rest).
Init == InitWith(BOOLEAN, { FALSE }, { FALSE }, { FALSE })

Next ==
    \/ AgentCtor
    \/ \E batch \in Batches(HostFrames, MaxFrames) : HostWrite(batch)
    \/ ChildExits
    \/ \E n \in ArrivalSizes \cup { 0 }, closed \in BOOLEAN :
          OnControlPipeIo(n, closed)
    \/ \E pipe \in OutputPipes : OnOutputPipeIo(pipe, "connected", 0)
    \/ OnConinPipeIo("connected", FALSE)
    \/ OnPollTimeout(FALSE, 0, 0)
    \/ AgentDtor

Spec == Init /\ [][Next]_vars

\* The tick and auto-shutdown: the host writes StartProcess frames only,
\* each arriving whole, and the mouse flag, console input, the scrapers'
\* output and the host's reading of it vary freely (the title at rest).
TickFrames ==
    { Frame(StartProcessBody(SpawnFlagAutoShutdown, 1, 1)),
      Frame(StartProcessBody(0, 0, 0)) }

InitTick == InitWith(BOOLEAN, BOOLEAN, { FALSE }, { FALSE })

NextTick ==
    \/ AgentCtor
    \/ \E f \in TickFrames : HostWrite(<< f >>)
    \/ ChildExits
    \/ \E closed \in BOOLEAN : OnControlPipeIo(Len(wire), closed)
    \/ \E pipe \in OutputPipes, event \in { "connected", "sent", "failed" },
          n \in 0..MaxPending : OnOutputPipeIo(pipe, event, n)
    \/ \E event \in { "connected", "input" }, dsr \in BOOLEAN :
          OnConinPipeIo(event, dsr)
    \/ \E enableMouse \in BOOLEAN, out1 \in 0..MaxPending, out2 \in 0..MaxPending :
          OnPollTimeout(enableMouse, out1, out2)
    \/ AgentDtor

SpecTick == InitTick /\ [][NextTick]_vars

\* The console title: programs in the console retitle it between ticks,
\* while one auto-shutdown child is spawned, exits and the pipes drain.
InitTitle == InitWith(BOOLEAN, { FALSE }, { FALSE }, { FALSE })

NextTitle ==
    \/ AgentCtor
    \/ \E title \in Titles : TitleChanges(title)
    \/ HostWrite(<< Frame(StartProcessBody(SpawnFlagAutoShutdown, 0, 0)) >>)
    \/ ChildExits
    \/ OnControlPipeIo(Len(wire), FALSE)
    \/ \E pipe \in OutputPipes, event \in { "connected", "sent" },
          n \in 0..MaxPending : OnOutputPipeIo(pipe, event, n)
    \/ OnConinPipeIo("connected", FALSE)
    \/ \E out1 \in 0..MaxPending : OnPollTimeout(FALSE, out1, 0)

SpecTitle == InitTitle /\ [][NextTitle]_vars

\* Calibration: the agent is constructed on every kind of platform and then
\* resizes and scrapes the console with the freeze method it has chosen.
InitCalibration == InitWith(BOOLEAN, { FALSE }, BOOLEAN, BOOLEAN)

NextCalibration ==
    \/ AgentCtor
    \/ \E size \in SetSizeRequests :
          HostWrite(<< Frame(SetSizeBody(size[1], size[2])) >>)
    \/ \E closed \in BOOLEAN : OnControlPipeIo(Len(wire), closed)
    \/ \E pipe \in OutputPipes, event \in { "connected", "sent" },
          n \in 0..MaxPending : OnOutputPipeIo(pipe, event, n)
    \/ \E enableMouse \in BOOLEAN, out1 \in 0..MaxPending :
          OnPollTimeout(enableMouse, out1, 0)
    \/ AgentDtor

SpecCalibration == InitCalibration /\ [][NextCalibration]_vars

\* Auto-shutdown to completion.  The steps are those of the tick
\* specification, except that the host never breaks an output pipe; on top
\* of them the timer keeps firing, the host connects to each output pipe,
\* and the host reads each output pipe's queue empty.
InitShutdown == InitWith(BOOLEAN, BOOLEAN, { FALSE }, { FALSE })

NextShutdown ==
    \/ AgentCtor
    \/ \E f \in TickFrames : HostWrite(<< f >>)
    \/ ChildExits
    \/ \E closed \in BOOLEAN : OnControlPipeIo(Len(wire), closed)
    \/ \E pipe \in OutputPipes, event \in { "connected", "sent" },
          n \in 0..MaxPending : OnOutputPipeIo(pipe, event, n)
    \/ \E event \in { "connected", "input" }, dsr \in BOOLEAN :
          OnConinPipeIo(event, dsr)
    \/ \E enableMouse \in BOOLEAN, out1 \in 0..MaxPending, out2 \in 0..MaxPending :
          OnPollTimeout(enableMouse, out1, out2)
    \/ AgentDtor

\* The event loop's timer expires: some tick runs.
TimerFires ==
    \E enableMouse \in BOOLEAN, out1 \in 0..MaxPending, out2 \in 0..MaxPending :
        OnPollTimeout(enableMouse, out1, out2)

\* The host connects to an output pipe.
HostConnects(pipe) == OnOutputPipeIo(pipe, "connected", 0)

\* The host reads everything queued on an output pipe.
HostDrains(pipe) == OnOutputPipeIo(pipe, "sent", bytesToSend[pipe])

\* The timer expires whatever the send queues hold; only the bound on the
\* queues can disable the tick here, so the timer's fairness is strong.
\* Connecting and draining stay enabled until they happen or the pipe is
\* closed, so weak fairness says the host keeps at them.
FairShutdown ==
    /\ SF_vars(TimerFires)
    /\ WF_vars(HostConnects("conout"))
    /\ WF_vars(HostConnects("conerr"))
    /\ WF_vars(HostDrains("conout"))
    /\ WF_vars(HostDrains("conerr"))

SpecShutdown == InitShutdown /\ [][NextShutdown]_vars /\ FairShutdown

----------------------------------------------------------------------------
(* Properties.                                                             *)

Notes == { dispatched[i] : i \in 1..Len(dispatched) }

\* The reply a dispatched request wrote, when it wrote exactly one.
ReplyOf(note) == replies[note.post.nReplies]

IsResult(reply, result) ==
    /\ Len(reply) >= 2
    /\ reply[2][1] = "i32"
    /\ reply[2][2] = result

IsProcessCreatedReply(reply) == Len(reply) = 4 /\ IsResult(reply, ProcessCreated)

\* The StartProcess frames of the menus that decode.
GoodStartProcessFrames ==
    { Frame(StartProcessBody(f, h, h)) : f \in { 0, SpawnFlagAutoShutdown }, h \in { 0, 1 } }

\* The configured data pipes that were still connecting when the note's
\* request was handled, in creation order.
PendingAt(note) ==
    SelectSeq(DataPipes, LAMBDA pipe : note.pre.pipes[pipe] = "connecting")

\* C1: a decodable StartProcess request handled with no child tracked and
\* not closing is refused, when some configured data pipe is still
\* connecting, without calling CreateProcessW and without touching the child
\* or the auto-shutdown flag, by exactly one PipesStillOpen reply that lists
\* the connecting pipes in creation order, ", " between them; CreateProcessW
\* is called only when no data pipe is connecting.
C1_PipesStillOpen ==
    \A note \in Notes :
        ( /\ note.kind = "StartProcess"
          /\ note.packet \in GoodStartProcessFrames
          /\ note.pre.child = 0
          /\ ~note.pre.closing )
        => IF PendingAt(note) # << >>
           THEN /\ note.osError = -1
                /\ note.ops = << "writePacket" >>
                /\ note.post = [note.pre EXCEPT !.nReplies = @ + 1]
                /\ Len(ReplyOf(note)) = 3
                /\ IsResult(ReplyOf(note), PipesStillOpen)
                /\ ReplyOf(note)[3][1] = "wstr"
                /\ LET list == ReplyOf(note)[3][2]
                   IN  /\ Len(list) = 2 * Len(PendingAt(note)) - 1
                       /\ \A i \in 1..Len(list) :
                             list[i] = IF i % 2 = 1 THEN PendingAt(note)[(i + 1) \div 2]
                                       ELSE ", "
           ELSE /\ note.osError # -1
                /\ "CreateProcess" \in { note.ops[i] : i \in 1..Len(note.ops) }

\* C1 witness: a refusal that names conin and conerr, conout being connected.
C1_Witness ==
    \E note \in Notes :
        /\ note.kind = "StartProcess"
        /\ PendingAt(note) = << "conin", "conerr" >>
        /\ IsResult(ReplyOf(note), PipesStillOpen)

\* C2: at most one reply in the controller's lifetime is ProcessCreated,
\* and a StartProcess request handled after a ProcessCreated reply aborts
\* the agent: no reply, no CreateProcessW call, the tracked child, the
\* handles and the auto-shutdown flag as they were.
C2_SingleSpawn ==
    /\ Cardinality({ i \in 1..Len(replies) : IsProcessCreatedReply(replies[i]) }) <= 1
    /\ \A note \in Notes :
          ( /\ note.kind = "StartProcess"
            /\ \E i \in 1..note.pre.nReplies : IsProcessCreatedReply(replies[i]) )
          => /\ note.post = [note.pre EXCEPT !.status = "aborted"]
             /\ note.osError = -1
             /\ note.ops = << "abort" >>
             /\ status = "aborted"

\* C2 witness: a second StartProcess arrives in the closing phase, when the
\* child's handle is no longer tracked, and aborts the agent.
C2_Witness ==
    \E note \in Notes :
        /\ note.kind = "StartProcess"
        /\ note.pre.closing
        /\ note.pre.child = 0
        /\ note.post.status = "aborted"
        /\ \E i \in 1..note.pre.nReplies : IsProcessCreatedReply(replies[i])

\* C2, further cases reached: the second request finds the child running,
\* or exited but not yet detected.
C2_WitnessRunning ==
    \E note \in Notes :
        /\ note.kind = "StartProcess"
        /\ note.pre.child # 0
        /\ note.pre.childAlive
        /\ note.post.status = "aborted"

C2_WitnessUndetected ==
    \E note \in Notes :
        /\ note.kind = "StartProcess"
        /\ note.pre.child # 0
        /\ ~note.pre.childAlive
        /\ note.post.status = "aborted"

\* C3: auto-shutdown calls closePipe() on an output pipe at most once, and
\* only in a step that starts with the pipe not closed and ends, in the
\* closing phase of an armed auto-shutdown whose child has exited, with
\* that pipe's own bytesToSend at zero.
C3_CloseWhenDrained ==
    /\ [](\A pipe \in OutputPipes : closeCalls[pipe] <= 1)
    /\ [][\A pipe \in OutputPipes :
            closeCalls'[pipe] # closeCalls[pipe]
            => /\ pipeState[pipe] \in { "connecting", "open" }
               /\ pipeState'[pipe] = "closed"
               /\ bytesToSend'[pipe] = 0
               /\ m_closingOutputPipes'
               /\ m_autoShutdown
               /\ ~childAlive
               /\ m_childProcess' = 0]_vars

\* C3 witness: CONOUT closed by auto-shutdown while CONERR is still open
\* with bytes to send.
C3_Witness ==
    /\ closeCalls["conout"] = 1
    /\ pipeState["conout"] = "closed"
    /\ closeCalls["conerr"] = 0
    /\ pipeState["conerr"] = "open"
    /\ bytesToSend["conerr"] > 0

\* C3, the other way round: CONERR closed first.
C3_WitnessConerrFirst ==
    /\ closeCalls["conerr"] = 1
    /\ closeCalls["conout"] = 0
    /\ pipeState["conout"] = "open"
    /\ bytesToSend["conout"] > 0

\* C3, a pipe the host had closed is not closed again by auto-shutdown.
C3_WitnessHostClosed ==
    /\ m_closingOutputPipes
    /\ pipeState["conout"] = "closed"
    /\ closeCalls["conout"] = 0

Positions(seq, x) == { i \in 1..Len(seq) : seq[i] = x }

\* Every position of x in seq is before every position of y.
AllBefore(seq, x, y) ==
    \A i \in Positions(seq, x), j \in Positions(seq, y) : i < j

\* C4: when the last handler was a tick and the agent is closing, then
\* either that tick detected the exit, and it ran syncConsoleTitle once and
\* one scrape of each configured buffer, after the detection and before any
\* closePipe(); or it was a later tick and ran neither.
C4_FinalScrape ==
    (ops # << >> /\ Head(ops) = "onPollTimeout" /\ m_closingOutputPipes)
    => IF Positions(ops, "enterClosing") # { }
       THEN /\ Cardinality(Positions(ops, "enterClosing")) = 1
            /\ Cardinality(Positions(ops, "syncConsoleTitle")) = 1
            /\ Cardinality(Positions(ops, "scrapePrimary")) = 1
            /\ Cardinality(Positions(ops, "scrapeError")) = IF m_useConerr THEN 1 ELSE 0
            /\ AllBefore(ops, "enterClosing", "syncConsoleTitle")
            /\ AllBefore(ops, "syncConsoleTitle", "scrapePrimary")
            /\ \A scrape \in { "scrapePrimary", "scrapeError" },
                  close \in { "closeConout", "closeConerr" } :
                    AllBefore(ops, scrape, close)
       ELSE /\ Positions(ops, "syncConsoleTitle") = { }
            /\ Positions(ops, "scrapePrimary") = { }
            /\ Positions(ops, "scrapeError") = { }

\* C4 witness: the tick that detects the exit scrapes both buffers and then
\* closes both output pipes.
C4_Witness ==
    /\ ops # << >>
    /\ Head(ops) = "onPollTimeout"
    /\ Positions(ops, "enterClosing") # { }
    /\ Positions(ops, "scrapeError") # { }
    /\ Positions(ops, "closeConout") # { }
    /\ Positions(ops, "closeConerr") # { }

\* C4, a later tick: closing, no exit detected on it, nothing scraped.
C4_WitnessLaterTick ==
    /\ ops # << >>
    /\ Head(ops) = "onPollTimeout"
    /\ m_closingOutputPipes
    /\ Positions(ops, "enterClosing") = { }

IsPrefix(s1, s2) == Len(s1) <= Len(s2) /\ SubSeq(s2, 1, Len(s1)) = s1

\* The frame at the head of the control buffer has its header buffered but
\* not all of the bytes the header declares.
HeadIncomplete(buf) ==
    Len(buf) >= HeaderSize /\ GetUInt64(buf, 0) > Len(buf)

\* C5: a frame whose declared length S exceeds what is buffered stays in
\* the buffer untouched and readBufferSize is at least S; a frame is only
\* dispatched by an event that has at least its declared length buffered,
\* and an incomplete frame leaves the buffer only by such a dispatch.
C5_IncompleteFrameWaits ==
    /\ []((status = "running" /\ HeadIncomplete(ctrlBuf))
            => readBufferSize >= GetUInt64(ctrlBuf, 0))
    /\ [](\A note \in Notes : note.declared <= note.buffered)
    /\ [][(status = "running" /\ HeadIncomplete(ctrlBuf))
            => \/ IsPrefix(ctrlBuf, ctrlBuf')
               \/ /\ dispatched' # << >>
                  /\ dispatched'[1].declared = GetUInt64(ctrlBuf, 0)
                  /\ dispatched'[1].buffered >= GetUInt64(ctrlBuf, 0)
                  /\ IsPrefix(ctrlBuf, dispatched'[1].packet)]_vars

\* C5 witness: a header declaring more than the default capacity is
\* buffered, and the capacity has grown to the declared length.
C5_Witness ==
    /\ status = "running"
    /\ HeadIncomplete(ctrlBuf)
    /\ GetUInt64(ctrlBuf, 0) > InitialReadBufferSize
    /\ readBufferSize = GetUInt64(ctrlBuf, 0)

\* C5, a frame dispatched with an incomplete frame left buffered behind it.
C5_WitnessBehind ==
    /\ dispatched # << >>
    /\ dispatched[1].buffered > dispatched[1].declared
    /\ status = "running"
    /\ HeadIncomplete(ctrlBuf)

RECURSIVE PacketsOf(_)
\* The bytes of the dispatched frames, in dispatch order.
PacketsOf(notes) ==
    IF notes = << >> THEN << >> ELSE Head(notes).packet \o PacketsOf(Tail(notes))

\* C6: a control event on the open pipe consumes the buffered bytes frame
\* by frame in buffer order, each frame being exactly the bytes its header
\* declares, and when it returns with the agent running no complete frame
\* is left: the rest is shorter than a header or a strict prefix of a frame.
C6_DispatchEveryFrame ==
    /\ [](status = "running"
            => (Len(ctrlBuf) < HeaderSize \/ HeadIncomplete(ctrlBuf)))
    /\ [](\A note \in Notes :
            /\ note.consumed = note.declared
            /\ Len(note.packet) = note.declared
            /\ GetUInt64(note.packet, 0) = note.declared)
    /\ [][(framesSent' = framesSent /\ wire' # wire /\ ~controlClosed')
            => PacketsOf(dispatched') \o ctrlBuf'
                 = ctrlBuf \o SubSeq(wire, 1, Len(wire) - Len(wire'))]_vars

\* C6 witness: one event dispatched two frames and left the agent running.
C6_Witness ==
    /\ Len(dispatched) = 2
    /\ status = "running"

\* C6, a frame dispatched with the start of the next one left buffered.
C6_WitnessRemainder ==
    /\ Len(dispatched) = 1
    /\ status = "running"
    /\ ctrlBuf # << >>

\* C7: while no fatal error has happened, the replies after the handshake
\* are one per StartProcess or SetSize request dispatched, in request
\* order (an empty ack for SetSize, a StartProcess result for StartProcess)
\* and none for an unrecognized frame, which is consumed whole and changes
\* nothing and after which the loop goes on to the frames behind it.
C7_OneReplyPerRequest ==
    /\ status \in { "running", "exiting", "destroyed" }
       => LET asked == SelectSeq(requests,
                                 LAMBDA kind : kind \in { "StartProcess", "SetSize" })
          IN  /\ Len(replies) = 1 + Len(asked)
              /\ \A i \in 1..Len(asked) :
                    IF asked[i] = "SetSize"
                    THEN replies[i + 1] = << << "u64", HeaderSize >> >>
                    ELSE /\ Len(replies[i + 1]) >= 3
                         /\ replies[i + 1][2][1] = "i32"
                         /\ replies[i + 1][2][2] \in
                              { ProcessCreated, CreateProcessFailed, PipesStillOpen }
    /\ \A i \in 1..Len(dispatched) :
          dispatched[i].kind = "Unrecognized"
          => /\ dispatched[i].consumed = Len(dispatched[i].packet)
             /\ dispatched[i].post = dispatched[i].pre
             /\ dispatched[i].ops = << >>
             /\ (status = "running" /\ i = Len(dispatched))
                  => (Len(ctrlBuf) < HeaderSize \/ HeadIncomplete(ctrlBuf))

\* C7 witness: an unrecognized frame and the SetSize behind it dispatched
\* by one event, with the one ack written.
C7_Witness ==
    /\ Len(dispatched) = 2
    /\ dispatched[1].kind = "Unrecognized"
    /\ dispatched[2].kind = "SetSize"
    /\ Len(replies) = 2
    /\ status = "running"

\* C8: when CreateProcessW fails with error e the request changes nothing
\* but the reply stream: one CreateProcessFailed reply carrying e, the
\* agent still running, no child, the handles and the auto-shutdown flag
\* as before.
C8_SpawnFailureReply ==
    \A note \in Notes :
        (note.kind = "StartProcess" /\ note.osError > 0)
        => /\ note.post = [note.pre EXCEPT !.nReplies = @ + 1]
           /\ note.post.status = "running"
           /\ note.post.child = 0
           /\ ReplyOf(note) = << << "u64", 16 >>, << "i32", CreateProcessFailed >>,
                                 << "i32", note.osError >> >>

\* C8 witness: a failed spawn is followed by a successful one.
C8_Witness ==
    \E i, j \in 1..Len(replies) :
        /\ i < j
        /\ Len(replies[i]) = 3
        /\ IsResult(replies[i], CreateProcessFailed)
        /\ replies[i][3] = << "i32", 5 >>
        /\ IsProcessCreatedReply(replies[j])
        /\ m_childProcess # 0

\* C9: a frame of the malformed menu that reaches a handler aborts the
\* agent with nothing else done, and is the last frame dispatched; a header
\* declaring less than the header's own size aborts the agent before any
\* dispatch of it; and an aborted agent takes no further step.
C9_MalformedIsFatal ==
    /\ [](\A i \in 1..Len(dispatched) :
            dispatched[i].packet \in MalformedFrames
            => /\ dispatched[i].post = [dispatched[i].pre EXCEPT !.status = "aborted"]
               /\ dispatched[i].ops = << "abort" >>
               /\ dispatched[i].osError = -1
               /\ i = Len(dispatched)
               /\ status = "aborted"
               /\ Len(replies) = dispatched[i].pre.nReplies)
    /\ []((Len(ctrlBuf) >= HeaderSize /\ GetUInt64(ctrlBuf, 0) < HeaderSize)
            => status \in { "aborted", "exiting", "destroyed" })
    /\ [][(Len(ctrlBuf') >= HeaderSize /\ GetUInt64(ctrlBuf', 0) < HeaderSize
           /\ status = "running" /\ status' = "aborted")
            => IF dispatched' = << >>
               THEN /\ replies' = replies
                    /\ bufSize' = bufSize
                    /\ m_childProcess' = m_childProcess
               ELSE LET last == dispatched'[Len(dispatched')]
                    IN  /\ Len(replies') = last.post.nReplies
                        /\ bufSize' = last.post.bufSize
                        /\ m_childProcess' = last.post.child]_vars
    /\ [][status # "aborted"]_vars

\* C9 witness: a SetSize frame with a trailing byte has aborted the agent.
C9_Witness ==
    /\ status = "aborted"
    /\ dispatched # << >>
    /\ dispatched[Len(dispatched)].packet = Frame(SetSizeBody(80, 24) \o << 0 >>)

\* C9, the other malformed shapes reached.
C9_WitnessShortHeader ==
    /\ status = "aborted"
    /\ Len(ctrlBuf) >= HeaderSize
    /\ GetUInt64(ctrlBuf, 0) < HeaderSize

C9_WitnessTruncatedStart ==
    /\ status = "aborted"
    /\ dispatched # << >>
    /\ dispatched[Len(dispatched)].packet
         = Frame(SubSeq(StartProcessBody(0, 0, 0), 1, 30))

\* C10: a SetSize request with cols or rows out of range changes neither
\* the buffers' size nor the mouse rectangle, never freezes the console,
\* and is answered by exactly one empty ack.
C10_InvalidSizeIgnored ==
    \A note \in Notes :
        \A size \in SetSizeRequests :
            ( /\ note.packet = Frame(SetSizeBody(size[1], size[2]))
              /\ \/ size[1] < 1
                 \/ size[1] > MAX_CONSOLE_WIDTH
                 \/ size[2] < 1
                 \/ size[2] > BUFFER_LINE_COUNT - 1 )
            => /\ note.kind = "SetSize"
               /\ note.post = [note.pre EXCEPT !.nReplies = @ + 1]
               /\ note.ops = << "writePacket" >>
               /\ ReplyOf(note) = << << "u64", HeaderSize >> >>

\* C10 witness: rows one past the largest accepted value, acknowledged.
C10_Witness ==
    \E note \in Notes :
        /\ note.packet = Frame(SetSizeBody(80, BUFFER_LINE_COUNT))
        /\ note.post.nReplies = note.pre.nReplies + 1
        /\ note.post.bufSize = note.pre.bufSize


\* The SetSize requests of the menu that resizeWindow accepts.
InBoundsRequests ==
    { size \in SetSizeRequests :
        /\ size[1] >= 1 /\ size[1] <= MAX_CONSOLE_WIDTH
        /\ size[2] >= 1 /\ size[2] <= BUFFER_LINE_COUNT - 1 }

\* What every accepted SetSize request leaves behind, whatever the order of
\* its steps: each configured buffer at the requested size, the mouse
\* rectangle at the primary buffer's, the console unfrozen, one empty ack.
ResizedTo(note, size) ==
    /\ note.kind = "SetSize"
    /\ note.post = [note.pre EXCEPT
                      !.bufSize = [b \in Buffers |->
                                     IF b = "error" /\ ~m_useConerr THEN @[b] ELSE size],
                      !.mouseRect = size,
                      !.nReplies = @ + 1]
    /\ ReplyOf(note) = << << "u64", HeaderSize >> >>

\* C11 as stated: an accepted SetSize request freezes, resizes every
\* configured buffer, then sets the mouse rectangle, unfreezes and acks.
C11_AsClaimed ==
    \A note \in Notes : \A size \in InBoundsRequests :
        note.packet = Frame(SetSizeBody(size[1], size[2]))
        => /\ ResizedTo(note, size)
           /\ note.ops = << "freeze", "resizePrimary" >>
                         \o (IF m_useConerr THEN << "resizeError" >> ELSE << >>)
                         \o << "setMouseWindowRect", "unfreeze", "writePacket" >>

\* C11, amended: an accepted SetSize request freezes, resizes the primary
\* buffer, sets the mouse rectangle to the primary buffer's window, resizes
\* the error buffer when there is one, unfreezes and then writes one empty
\* ack; each configured buffer is resized once, to the requested size.
C11_ResizeOrder ==
    \A note \in Notes : \A size \in InBoundsRequests :
        note.packet = Frame(SetSizeBody(size[1], size[2]))
        => /\ ResizedTo(note, size)
           /\ note.ops = << "freeze", "resizePrimary", "setMouseWindowRect" >>
                         \o (IF m_useConerr THEN << "resizeError" >> ELSE << >>)
                         \o << "unfreeze", "writePacket" >>

\* C11 witness: an accepted request handled with the error buffer
\* configured, both buffers now at the requested size.
C11_Witness ==
    \E note \in Notes :
        /\ note.packet = Frame(SetSizeBody(MAX_CONSOLE_WIDTH, BUFFER_LINE_COUNT - 1))
        /\ m_useConerr
        /\ note.post.bufSize["error"] = << MAX_CONSOLE_WIDTH, BUFFER_LINE_COUNT - 1 >>
        /\ note.post.mouseRect = << MAX_CONSOLE_WIDTH, BUFFER_LINE_COUNT - 1 >>


\* A step of the periodic timeout.
TickStep ==
    \E enableMouse \in BOOLEAN, out1 \in 0..MaxPending, out2 \in 0..MaxPending :
        OnPollTimeout(enableMouse, out1, out2)

\* C12: the cached title is the last title written to conout, or the
\* initial empty title when none was written; a tick that scrapes writes
\* the console's title exactly when it differs from the cache, and the
\* cache then equals it; a tick with the title unchanged, a tick that does
\* not scrape and every other step write no title and keep the cache.
C12_TitleSync ==
    /\ [](m_currentTitle = IF titlesWritten = << >> THEN ""
                           ELSE titlesWritten[Len(titlesWritten)])
    /\ [][IF TickStep /\ ~m_closingOutputPipes /\ consoleTitle # m_currentTitle
          THEN /\ titlesWritten' = Append(titlesWritten, consoleTitle)
               /\ m_currentTitle' = consoleTitle
               /\ bytesToSend'["conout"] > bytesToSend["conout"]
          ELSE /\ titlesWritten' = titlesWritten
               /\ m_currentTitle' = m_currentTitle]_vars

\* C12 witness: two titles written, the console retitled in between, and
\* a later tick with the title unchanged having written nothing.
C12_Witness ==
    /\ titlesWritten = << "vim", "" >>
    /\ m_currentTitle = ""
    /\ consoleTitle = ""
    /\ ops # << >>
    /\ Head(ops) = "onPollTimeout"
    /\ Positions(ops, "syncConsoleTitle") # { }
    /\ Positions(ops, "writeTitle") = { }

\* C12, a tick in the closing phase leaves a changed title unwritten.
C12_WitnessClosing ==
    /\ m_closingOutputPipes
    /\ consoleTitle # m_currentTitle
    /\ ops # << >>
    /\ Head(ops) = "onPollTimeout"
    /\ Positions(ops, "enterClosing") = { }


\* The syscommand the console has been told to freeze with moves the cursor.
SelectedMovesCursor ==
    IF freezeUsesMark THEN markMovesCursor ELSE selectAllMovesCursor

\* C13: once the agent is constructed, MARK is the freeze method exactly
\* when MARK left the probe cursor in place, so that where one of the two
\* syscommands moves the cursor and the other does not, the selected one
\* does not; construction starts and ends with the console unfrozen, and
\* the selection is never changed afterwards.
C13_FreezeCalibration ==
    /\ [](status # "constructing"
            => /\ freezeUsesMark <=> ~markMovesCursor
               /\ (markMovesCursor # selectAllMovesCursor) => ~SelectedMovesCursor)
    /\ [][(status = "constructing" /\ status' # "constructing")
            => /\ ~frozen
               /\ ~frozen'
               /\ SubSeq(ops', 5, 7) = << "freeze", "readCursor", "unfreeze" >>]_vars
    /\ [][status # "constructing" => freezeUsesMark' = freezeUsesMark]_vars

\* C13 witness: on a platform where MARK moves the cursor and SELECT_ALL
\* does not, SELECT_ALL was selected and a later resize has frozen with it.
C13_Witness ==
    /\ markMovesCursor
    /\ ~selectAllMovesCursor
    /\ status = "running"
    /\ ~freezeUsesMark
    /\ ~frozen
    /\ Head(ops) = "pollControlPipe"
    /\ Positions(ops, "freeze") # { }

\* C13, the other platform: MARK stays put, SELECT_ALL moves, MARK selected.
C13_WitnessMark ==
    /\ ~markMovesCursor
    /\ selectAllMovesCursor
    /\ status = "running"
    /\ freezeUsesMark


\* The requests among the notes that were answered.
AnsweredNotes(notes) ==
    SelectSeq(notes, LAMBDA note : /\ note.kind \in { "StartProcess", "SetSize" }
                                   /\ note.post.nReplies = note.pre.nReplies + 1)

\* C14: from construction on, the first frame on the control pipe is the
\* setup packet: a length header equal to the frame's size, then the names
\* of conin, conout and (exactly when configured) conerr as strings, no
\* message type; the constructor writes it after creating the data pipes and
\* with no request dispatched yet; and every frame written later is the one
\* reply of a StartProcess or SetSize request dispatched by the same event.
C14_SetupPacketFirst ==
    /\ [](IF status = "constructing"
          THEN replies = << >> /\ requests = << >>
          ELSE /\ Len(replies) >= 1
               /\ replies[1] =
                    << << "u64", HeaderSize + 10 * (IF m_useConerr THEN 3 ELSE 2) >>,
                       << "wstr", << "conin" >> >>,
                       << "wstr", << "conout" >> >> >>
                    \o (IF m_useConerr THEN << << "wstr", << "conerr" >> >> >> ELSE << >>)
               /\ replies[1][1][2] = PacketBytes(replies[1]))
    /\ [][(status = "constructing" /\ status' # "constructing")
            => /\ Len(replies') = 1
               /\ requests' = << >>
               /\ AllBefore(ops', "createPipes", "writePacket")
               /\ Cardinality(Positions(ops', "writePacket")) = 1
               /\ \A pipe \in { "conin", "conout", "conerr" } :
                     pipeState'[pipe] = IF pipe = "conerr" /\ ~m_useConerr
                                        THEN "none" ELSE "connecting"]_vars
    /\ [][(status # "constructing" /\ replies' # replies)
            => /\ IsPrefix(replies, replies')
               /\ Len(replies') - Len(replies) = Len(AnsweredNotes(dispatched'))
               /\ \A i \in 1..Len(dispatched') :
                     dispatched'[i].post.nReplies - dispatched'[i].pre.nReplies
                       = IF dispatched'[i] \in
                              { AnsweredNotes(dispatched')[j] :
                                  j \in 1..Len(AnsweredNotes(dispatched')) }
                         THEN 1 ELSE 0]_vars

\* C14 witness: the error pipe configured, the three names sent first, and
\* a reply to a request written after them.
C14_Witness ==
    /\ m_useConerr
    /\ status = "running"
    /\ Len(replies) = 2
    /\ Len(replies[1]) = 4
    /\ replies[1][4] = << "wstr", << "conerr" >> >>
    /\ Len(requests) = 1


\* C15: closing implies auto-shutdown armed and no child tracked; closing
\* is entered only by a tick that finds auto-shutdown armed and a tracked
\* child that has exited; it is never left; and while auto-shutdown is not
\* armed the agent is not closing and auto-shutdown has closed no pipe.
C15_ClosingPhase ==
    /\ [](m_closingOutputPipes => (m_autoShutdown /\ m_childProcess = 0))
    /\ [](~m_autoShutdown
            => /\ ~m_closingOutputPipes
               /\ \A pipe \in OutputPipes : closeCalls[pipe] = 0)
    /\ [][(~m_closingOutputPipes /\ m_closingOutputPipes')
            => /\ TickStep
               /\ m_autoShutdown
               /\ m_childProcess # 0
               /\ ~childAlive
               /\ Head(ops') = "onPollTimeout"
               /\ Positions(ops', "enterClosing") # { }]_vars
    /\ [][m_closingOutputPipes => m_closingOutputPipes']_vars

\* C15 witness: a tick has entered closing, and a later event finds the
\* agent still closing.
C15_Witness ==
    /\ m_closingOutputPipes
    /\ m_autoShutdown
    /\ ops # << >>
    /\ Head(ops) = "onPipeIo"

\* C15, unarmed: the child is dead, a tick has run since, nothing closes.
C15_WitnessUnarmed ==
    /\ ~m_autoShutdown
    /\ m_childProcess # 0
    /\ ~childAlive
    /\ ops # << >>
    /\ Head(ops) = "onPollTimeout"
    /\ ~m_closingOutputPipes
    /\ \A pipe \in OutputPipes : bytesToSend[pipe] = 0


\* C16: every tick that ends in the closing phase, the transition tick
\* included, calls enableMouseMode(false) once, whatever the input
\* translator's flag, after entering closing and before any closePipe() of
\* its own; in the closing phase the terminal's mouse mode is off; and
\* auto-shutdown closes conout only on such a tick or on a later event.
C16_MouseOffBeforeClose ==
    /\ [][(TickStep /\ m_closingOutputPipes')
            => /\ Head(ops') = "onPollTimeout"
               /\ Cardinality(Positions(ops', "mouseOff")) = 1
               /\ Positions(ops', "mouseOn") = { }
               /\ AllBefore(ops', "enterClosing", "mouseOff")
               /\ AllBefore(ops', "mouseOff", "closeConout")
               /\ ~mouseModeEnabled']_vars
    /\ [](m_closingOutputPipes => ~mouseModeEnabled)
    /\ [][closeCalls'["conout"] > closeCalls["conout"]
            => \/ m_closingOutputPipes
               \/ /\ TickStep
                  /\ Positions(ops', "enterClosing") # { }
                  /\ Positions(ops', "mouseOff") # { }]_vars

\* C16 witness: the transition tick, run with the input translator asking
\* for mouse mode and mouse mode on, turns it off and then closes conout.
C16_Witness ==
    /\ ops # << >>
    /\ Head(ops) = "onPollTimeout"
    /\ Positions(ops, "enterClosing") # { }
    /\ Positions(ops, "mouseOff") # { }
    /\ Positions(ops, "closeConout") # { }
    /\ ~mouseModeEnabled
    /\ ~m_plainMode

\* C16, conout closed by a pipe event after the transition tick.
C16_WitnessLaterClose ==
    /\ ops # << >>
    /\ Head(ops) = "onPipeIo"
    /\ Positions(ops, "closeConout") # { }


\* A complete frame is at the head of the buffer.
HeadComplete(buf) ==
    /\ Len(buf) >= HeaderSize
    /\ GetUInt64(buf, 0) >= HeaderSize
    /\ GetUInt64(buf, 0) <= Len(buf)

\* C17: the control event that finds the pipe closed calls shutdown() and
\* nothing else: it dispatches no frame, writes no reply and leaves all
\* buffered bytes, those that came with it included, in the buffer; and
\* once the pipe is closed no frame is dispatched and no reply written.
C17_ClosedControlPipe ==
    /\ [][(~controlClosed /\ controlClosed')
            => /\ status' = "exiting"
               /\ ops' = << "pollControlPipe", "shutdown" >>
               /\ dispatched' = << >>
               /\ requests' = requests
               /\ replies' = replies
               /\ ctrlBuf' = ctrlBuf \o SubSeq(wire, 1, Len(wire) - Len(wire'))]_vars
    /\ [][controlClosed
            => /\ controlClosed'
               /\ status' \in { "exiting", "destroyed" }
               /\ dispatched' = dispatched
               /\ requests' = requests
               /\ replies' = replies
               /\ ctrlBuf' = ctrlBuf]_vars
    /\ [](controlClosed => status \in { "exiting", "destroyed" })

\* C17 witness: the pipe was found closed with a complete frame buffered,
\* and the agent has been destroyed with that frame still undispatched.
C17_Witness ==
    /\ controlClosed
    /\ status = "destroyed"
    /\ HeadComplete(ctrlBuf)
    /\ dispatched = << >>

\* C17, closed with an incomplete frame buffered.
C17_WitnessPartial ==
    /\ controlClosed
    /\ status = "exiting"
    /\ HeadIncomplete(ctrlBuf)


\* How many freezes are held just before step i of a handler's steps.
FreezeDepth(seq, i) ==
    Cardinality({ j \in 1..(i - 1) : seq[j] = "freeze" })
      - Cardinality({ j \in 1..(i - 1) : seq[j] = "unfreeze" })

\* The buffer steps of a scrape pass and of a resize.
ScrapeResizeOps == { "scrapePrimary", "scrapeError", "resizePrimary", "resizeError" }

\* C18: the console is unfrozen whenever the event loop waits; in every
\* handler each freeze is taken with none held and released before the
\* handler returns; every scrape and every accepted resize touches its
\* buffers between a freeze and the matching unfreeze.
C18_FreezeScoped ==
    /\ ~frozen
    /\ FreezeDepth(ops, Len(ops) + 1) = 0
    /\ \A i \in 1..Len(ops) :
          /\ ops[i] = "freeze" => FreezeDepth(ops, i) = 0
          /\ ops[i] = "unfreeze" => FreezeDepth(ops, i) = 1
          /\ ops[i] \in ScrapeResizeOps => FreezeDepth(ops, i) = 1
    /\ \A note \in Notes :
          /\ FreezeDepth(note.ops, Len(note.ops) + 1) = 0
          /\ ~note.pre.frozen
          /\ ~note.post.frozen

\* C18 witness: a control event has resized both buffers under the freeze.
C18_Witness ==
    /\ ops # << >>
    /\ Head(ops) = "pollControlPipe"
    /\ Positions(ops, "resizeError") # { }
    /\ Positions(ops, "unfreeze") # { }
    /\ status = "running"

\* C18, a tick has scraped both buffers under the freeze.
C18_WitnessScrape ==
    /\ ops # << >>
    /\ Head(ops) = "onPollTimeout"
    /\ Positions(ops, "scrapeError") # { }
    /\ Positions(ops, "unfreeze") # { }

\* Everything the agent does to a console screen buffer.
BufferMutations ==
    ScrapeResizeOps \cup { "resizeBuffer", "moveWindow", "setCursorPosition" }

\* C19 as stated: in every handler and in the constructor, calibration
\* included, a screen buffer is mutated only with a freeze held.
C19_AsClaimed ==
    \A i \in 1..Len(ops) :
        ops[i] \in BufferMutations => FreezeDepth(ops, i) = 1

\* C19, amended: in every handler run by the event loop a screen buffer is
\* mutated only with a freeze held, while calibration resizes the buffer,
\* moves the window and places the cursor with no freeze held, before its
\* probe freeze.
C19_MutationsUnderFreeze ==
    \A i \in 1..Len(ops) :
        ops[i] \in BufferMutations
        => IF Head(ops) = "Agent"
           THEN /\ ops[i] \in { "resizeBuffer", "moveWindow", "setCursorPosition" }
                /\ FreezeDepth(ops, i) = 0
                /\ \E j \in (i + 1)..Len(ops) : ops[j] = "freeze"
           ELSE FreezeDepth(ops, i) = 1

\* C19 witness: after calibration, a resize has mutated the primary buffer
\* under the freeze.
C19_Witness ==
    /\ ops # << >>
    /\ Head(ops) = "pollControlPipe"
    /\ Positions(ops, "resizePrimary") # { }
    /\ AllBefore(ops, "freeze", "resizePrimary")
    /\ status = "running"

\* C19, the constructor's calibration steps.
C19_WitnessCalibration ==
    /\ ops # << >>
    /\ Head(ops) = "Agent"
    /\ AllBefore(ops, "setCursorPosition", "freeze")


\* C20: the process handle of a successful spawn is new, tracked and open
\* whether or not duplicates went into the reply, and the duplicates are
\* other handles; a tracked handle stays open; a handle is closed only as
\* the tracked child handle, either by the tick that detects the exit under
\* auto-shutdown (which stops tracking it) or by the destructor; and a
\* closed handle is never open, hence never tracked, waited on or closed,
\* again.
C20_ChildHandleClosedOnce ==
    /\ []((status \in { "running", "exiting", "aborted" } /\ m_childProcess # 0)
            => m_childProcess \in openHandles)
    /\ [][(m_childProcess = 0 /\ m_childProcess' # 0)
            => /\ m_childProcess' \notin openHandles
               /\ m_childProcess' \in openHandles'
               /\ IsProcessCreatedReply(replies'[Len(replies')])
               /\ \A i \in { 3, 4 } :
                     LET dup == replies'[Len(replies')][i][2]
                     IN  /\ dup # m_childProcess'
                         /\ dup # 0 => (dup \in openHandles' /\ dup \notin openHandles)]_vars
    /\ [][(openHandles \ openHandles') # { }
            => /\ openHandles \ openHandles' = { m_childProcess }
               /\ \/ /\ TickStep
                     /\ m_autoShutdown
                     /\ ~childAlive
                     /\ m_childProcess' = 0
                     /\ Cardinality(Positions(ops', "closeChildHandle")) = 1
                  \/ /\ status = "exiting"
                     /\ status' = "destroyed"
                     /\ Cardinality(Positions(ops', "closeChildHandle")) = 1]_vars
    /\ [][\A h \in 1..(nextHandle - 1) :
            h \notin openHandles
            => /\ h \notin openHandles'
               /\ m_childProcess' = h => status' = "destroyed"]_vars
    /\ [][(Positions(ops', "closeChildHandle") # { } /\ ops' # ops)
            => (openHandles \ openHandles') # { }]_vars
    /\ [](status = "destroyed" => m_childProcess \notin openHandles)

\* C20 witness: a child spawned without duplicates was never detected as
\* exited, and the destructor has closed its handle.
C20_Witness ==
    /\ status = "destroyed"
    /\ m_childProcess # 0
    /\ ~m_closingOutputPipes
    /\ ops = << "~Agent", "agentShutdown", "closeChildHandle" >>
    /\ Len(replies) = 2
    /\ replies[2][3] = << "i64", 0 >>

\* C20, the tick closed the handle, and the destructor did not close again.
C20_WitnessTickClose ==
    /\ status = "destroyed"
    /\ m_closingOutputPipes
    /\ ops = << "~Agent", "agentShutdown" >>

----------------------------------------------------------------------------

\* Every output pipe the agent was configured with is closed.
OutputPipesClosed ==
    \A pipe \in OutputPipes : pipeState[pipe] \in { "none", "closed" }

\* C21: once a child spawned with auto-shutdown armed has exited, then,
\* with the timer firing and the host connecting to and draining the output
\* pipes, either the agent stops running (the control pipe closes or a fatal
\* assertion fires) or it enters the closing phase and conout, and conerr
\* when configured, end up closed.
C21_AutoShutdownCompletes ==
    (/\ status = "running"
     /\ m_autoShutdown
     /\ m_childProcess # 0
     /\ ~childAlive)
    ~> (\/ status # "running"
        \/ m_closingOutputPipes /\ OutputPipesClosed)

\* C21 witness: the agent is still running, in the closing phase, and
\* auto-shutdown has closed both conout and conerr, conout after a tick
\* that left it open.
C21_Witness ==
    /\ status = "running"
    /\ m_closingOutputPipes
    /\ m_useConerr
    /\ OutputPipesClosed
    /\ closeCalls["conout"] = 1
    /\ closeCalls["conerr"] = 1
    /\ ops # << >>
    /\ Head(ops) = "onPipeIo"

\* C21, on the way: the closing phase with conout still waiting for the
\* host to read its queue.
C21_WitnessDraining ==
    /\ status = "running"
    /\ m_closingOutputPipes
    /\ pipeState["conout"] = "open"
    /\ bytesToSend["conout"] > 0

====
